---- MODULE Spec2Model ----
(***************************************************************************)
(* Light group key management (release/scripts/startup/light_groups.py).   *)
(*                                                                         *)
(* Materials and lights each own a list of light-group memberships.  A     *)
(* sync pass numbers the group names referenced by lights and packs, per   *)
(* data-block, the numbers of its groups into a 4-word bit mask (and, for  *)
(* materials, a second "shadow" mask).                                     *)
(*                                                                         *)
(* Encoding.  A group name is a natural number (a token for the string).   *)
(* A 32-bit mask word is the set of the positions (0..31) of its set bits, *)
(* so that `vec[index] |= 1 << s` is `vec[index] \cup {s}`.                *)
(***************************************************************************)
EXTENDS Integers, Sequences, FiniteSets, TLC

VARIABLES
    groups,                 \* data.light_groups.groups: sequence of LightGroup records
    group_index,            \* data.light_groups.group_index
    use_default,            \* data.light_groups.use_default
    ignore_default_shadow,  \* data.light_groups.ignore_default_shadow
    library,                \* data.library is set (externally linked data-block)
    light_group_bits,       \* data.light_group_bits, 4 words
    light_group_shadow_bits,\* data.light_group_shadow_bits, 4 words
    hash_seed,              \* the process's string hash seed (fixes set iteration order)
    bit_mapping,            \* bit_mapping of the last sync pass
    warned,                 \* the last sync pass printed the overflow warning
    last,                   \* the operation that ran last and its arguments
    nops                    \* number of operations run so far

vars == <<groups, group_index, use_default, ignore_default_shadow, library,
          light_group_bits, light_group_shadow_bits, hash_seed, bit_mapping,
          warned, last, nops>>

----------------------------------------------------------------------------
(* Program constants *)

SIZEOF_INT == 32
MAX_LIGHT_GROUP_BIT == 127

(* Bounds of the model *)

MaxOps == 2          \* operations per behaviour
MaxLen == 2          \* New/Link are offered while the edited list is shorter
MaxUser == 1         \* user-typed names available to a rename: UserName(1..MaxUser)
MaxSeed == 1         \* hash seeds 0..MaxSeed
HashBuckets == 4     \* buckets of the modelled hash table
SmallGroups == 3     \* loaded data sets have 0..SmallGroups light groups ...
MaxGroups == 130     \* ... or MAX_LIGHT_GROUP_BIT-2 .. MaxGroups
ToggleLimit == 2     \* ignore_shadow is edited on the first ToggleLimit records
MaxUpdates == 2      \* entries of dg.updates in a change notification

----------------------------------------------------------------------------
(* The data set: bpy.data.materials and bpy.data.lights, in iteration order *)

MaterialSeq == <<"m1", "m2">>
LightSeq == <<"l1">>
Materials == {MaterialSeq[i] : i \in 1..Len(MaterialSeq)}
Lights == {LightSeq[i] : i \in 1..Len(LightSeq)}
Entities == Materials \cup Lights

\* isinstance(data, Material)
IsMaterial(e) == e \in Materials

NoName == -1
NoEntity == "none"

\* "LightGroup" for i = 0 and f"LightGroup.{i:03}" for i >= 1: the even tokens
LightGroupName(i) == 2 * i
\* a name typed by the user ("Key", "Fill", ...): the odd tokens
UserName(k) == 2 * k - 1

\* LightGroup(): name, ignore_shadow (default False)
LightGroup(nm, is) == [name |-> nm, ignore_shadow |-> is]

ZeroMask == [w \in 0..3 |-> {}]

\* The data-block fields as one value, so that handlers compose
Data == [groups |-> groups, group_index |-> group_index,
         use_default |-> use_default,
         ignore_default_shadow |-> ignore_default_shadow,
         library |-> library,
         light_group_bits |-> light_group_bits,
         light_group_shadow_bits |-> light_group_shadow_bits,
         bit_mapping |-> bit_mapping, warned |-> warned]

----------------------------------------------------------------------------
(* set_bit, map_bits *)

\* set_bit with the shift taken modulo one less than the word size
set_bit_ShortShift(vec, bit) ==
    LET index == bit \div SIZEOF_INT
        shift == (bit + 1) % (SIZEOF_INT - 1)
    IN  IF index > 3 THEN vec
        ELSE [vec EXCEPT ![index] = @ \cup {shift}]

\* set_bit without the offset of one in the shift
set_bit_NoOffset(vec, bit) ==
    LET index == bit \div SIZEOF_INT
        shift == bit % SIZEOF_INT
    IN  IF index > 3 THEN vec
        ELSE [vec EXCEPT ![index] = @ \cup {shift}]

set_bit(vec, bit) ==
    LET index == bit \div SIZEOF_INT
        shift == (bit + 1) % SIZEOF_INT
    IN  IF index > 3 THEN vec
        ELSE [vec EXCEPT ![index] = @ \cup {shift}]

\* mapping.get(name): the index, or None
MappingGet(mapping, nm) ==
    IF nm \in DOMAIN mapping THEN mapping[nm] ELSE NoName

\* one turn of the loop that sets the shadow bit without testing is_mat
MapGroup_AnyBlock(grp, mapping, is_mat, masks) ==
    LET index == MappingGet(mapping, grp.name)
        bits == IF index # NoName THEN set_bit(masks[1], index) ELSE masks[1]
        shadow == IF index # NoName /\ ~grp.ignore_shadow
                  THEN set_bit(masks[2], index) ELSE masks[2]
    IN  <<bits, shadow>>

\* one turn of the loop `for grp in data.light_groups.groups` of map_bits;
\* masks is <<light_group_bits, light_group_shadow_bits>>
MapGroup(grp, mapping, is_mat, masks) ==
    LET index == MappingGet(mapping, grp.name)
        bits == IF index # NoName THEN set_bit(masks[1], index) ELSE masks[1]
        shadow == IF index # NoName /\ is_mat /\ ~grp.ignore_shadow
                  THEN set_bit(masks[2], index) ELSE masks[2]
    IN  <<bits, shadow>>

\* the loop over the records lo..hi, in list order (the range is halved only to
\* keep the nesting of the evaluation shallow)
RECURSIVE MapGroups(_, _, _, _, _, _)
MapGroups(grps, lo, hi, mapping, is_mat, masks) ==
    IF lo > hi THEN masks
    ELSE IF lo = hi THEN MapGroup(grps[lo], mapping, is_mat, masks)
    ELSE LET mid == (lo + hi) \div 2
             first == MapGroups(grps, lo, mid, mapping, is_mat, masks)
         IN  \* the test makes the first half be evaluated before the second
             IF Len(first) = 2
             THEN MapGroups(grps, mid + 1, hi, mapping, is_mat, first)
             ELSE first

\* ResetMasks with the two resets in the other order: the shadow mask is
\* assigned from light_group_bits before that is zeroed
ResetMasks_ShadowFirst(d, e) ==
    <<ZeroMask,
      IF IsMaterial(e) THEN d.light_group_bits[e] ELSE d.light_group_shadow_bits[e]>>

\* the masks a data-block has at the start of map_bits, after the two resets
ResetMasks(d, e) ==
    LET bits == ZeroMask
    IN  <<bits, IF IsMaterial(e) THEN bits ELSE d.light_group_shadow_bits[e]>>

\* map_bits with the default shadow bit set outside the use_default branch
map_bits_ShadowDefault(d, e, mapping) ==
    LET is_mat == IsMaterial(e)
        m1 == MapGroups(d.groups[e], 1, Len(d.groups[e]), mapping, is_mat, ResetMasks(d, e))
        bits == IF d.use_default[e] THEN set_bit(m1[1], MAX_LIGHT_GROUP_BIT) ELSE m1[1]
        shadow == IF is_mat /\ ~d.ignore_default_shadow[e]
                  THEN set_bit(m1[2], MAX_LIGHT_GROUP_BIT) ELSE m1[2]
    IN  <<bits, shadow>>

\* map_bits(data, mapping): the masks of data-block e afterwards
map_bits(d, e, mapping) ==
    LET is_mat == IsMaterial(e)
        m1 == MapGroups(d.groups[e], 1, Len(d.groups[e]), mapping, is_mat, ResetMasks(d, e))
        bits == IF d.use_default[e] THEN set_bit(m1[1], MAX_LIGHT_GROUP_BIT) ELSE m1[1]
        shadow == IF d.use_default[e] /\ is_mat /\ ~d.ignore_default_shadow[e]
                  THEN set_bit(m1[2], MAX_LIGHT_GROUP_BIT) ELSE m1[2]
    IN  <<bits, shadow>>

----------------------------------------------------------------------------
(* sync_light_groups *)

\* names of a group list, in list order
NamesOf(grps) == [i \in 1..Len(grps) |-> grps[i].name]

\* the names added by `for x in seq: for grp in x.light_groups.groups`, in order
RECURSIVE AddedNames(_, _, _)
AddedNames(d, seq, i) ==
    IF i > Len(seq) THEN <<>>
    ELSE NamesOf(d.groups[seq[i]]) \o AddedNames(d, seq, i + 1)

SeqRange(s) == {s[i] : i \in 1..Len(s)}

\* hash of a name string under the process's hash seed, reduced to a table slot
Hash(seed, nm) == (nm * seed) % HashBuckets

\* Iteration order of a Python set built by adding `added` in order: the table
\* is walked slot by slot; names in one slot come in insertion order.  (Repeated
\* names stay in the sequence; Enumerate numbers a name at its first place.)
RECURSIVE TableOrder(_, _, _)
TableOrder(added, seed, h) ==
    IF h >= HashBuckets THEN <<>>
    ELSE LET InSlot(nm) == Hash(seed, nm) = h
         IN  SelectSeq(added, InSlot) \o TableOrder(added, seed, h + 1)

\* Enumerate with the index never advanced: every name is numbered 0
RECURSIVE Enumerate_NoAdvance(_, _, _, _)
Enumerate_NoAdvance(order, lo, hi, st) ==
    IF lo > hi THEN st
    ELSE IF lo = hi
         THEN [index |-> st.index, dict |-> [st.dict EXCEPT ![order[lo]] = st.index]]
    ELSE LET mid == (lo + hi) \div 2
             first == Enumerate_NoAdvance(order, lo, mid, st)
         IN  IF first.index >= st.index
             THEN Enumerate_NoAdvance(order, mid + 1, hi, first)
             ELSE first

\* {name: index for index, name in enumerate(light_names)}, over the places
\* lo..hi of the iteration order; st is the next index and the dict so far.  A
\* name is numbered at its first place.  (The range is halved only to keep the
\* nesting of the evaluation shallow.)
RECURSIVE Enumerate(_, _, _, _)
Enumerate(order, lo, hi, st) ==
    IF lo > hi THEN st
    ELSE IF lo = hi
         THEN IF st.dict[order[lo]] # NoName THEN st
              ELSE [index |-> st.index + 1,
                    dict |-> [st.dict EXCEPT ![order[lo]] = st.index]]
    ELSE LET mid == (lo + hi) \div 2
             first == Enumerate(order, lo, mid, st)
         IN  \* the test makes the first half be evaluated before the second
             IF first.index >= st.index
             THEN Enumerate(order, mid + 1, hi, first)
             ELSE first

\* light_names collected from the materials as well as the lights
LightNamesAdded_AllData(d) == AddedNames(d, MaterialSeq, 1) \o AddedNames(d, LightSeq, 1)

\* the set light_names of sync_light_groups, as the sequence of add() calls
LightNamesAdded(d) == AddedNames(d, LightSeq, 1)

\* a mapping kept from the pass before instead of being rebuilt
BitMapping_Cached(d, seed) ==
    IF d.bit_mapping # <<>> THEN d.bit_mapping
    ELSE [nm \in SeqRange(LightNamesAdded(d)) |-> 0]

BitMapping(d, seed) ==
    LET added == LightNamesAdded(d)
        order == TableOrder(added, seed, 0)
    IN  Enumerate(order, 1, Len(order),
                  [index |-> 0, dict |-> [nm \in SeqRange(added) |-> NoName]]).dict

OverflowWarning(d) == Cardinality(SeqRange(LightNamesAdded(d))) >= MAX_LIGHT_GROUP_BIT

\* sync_light_groups(): the data afterwards
sync_light_groups(d, seed) ==
    LET mapping == BitMapping(d, seed)
        res == [e \in Entities |-> map_bits(d, e, mapping)]
    IN  [d EXCEPT !.light_group_bits = [e \in Entities |-> res[e][1]],
                  !.light_group_shadow_bits = [e \in Entities |-> res[e][2]],
                  !.bit_mapping = mapping,
                  !.warned = OverflowWarning(d)]

----------------------------------------------------------------------------
(* Common shape of an action: the handler turns Data into d; l describes it *)

NoArgs(o) ==
    [op |-> o, prev |-> "", ent |-> NoEntity, src |-> NoName, tgt |-> NoName, refs |-> {},
     mode |-> "", updates |-> <<>>, syncs |-> 0, bits |-> {}]

\* a resync remembers the operation it follows (and the arguments of a rename)
SyncAfter(l) ==
    IF l.op = "rename" THEN [l EXCEPT !.op = "sync", !.prev = l.op]
    ELSE [NoArgs("sync") EXCEPT !.prev = l.op]

Commit(d, l) ==
    /\ nops < MaxOps
    /\ groups' = d.groups
    /\ group_index' = d.group_index
    /\ use_default' = d.use_default
    /\ ignore_default_shadow' = d.ignore_default_shadow
    /\ library' = d.library
    /\ light_group_bits' = d.light_group_bits
    /\ light_group_shadow_bits' = d.light_group_shadow_bits
    /\ bit_mapping' = d.bit_mapping
    /\ warned' = d.warned
    /\ last' = l
    /\ nops' = nops + 1
    /\ UNCHANGED hash_seed

\* MAT_OT_ResyncLightGroups.execute, sync_handler (render_init, load_post)
Resync == Commit(sync_light_groups(Data, hash_seed), SyncAfter(last))

\* use_default edited: the property is set, then update_handler runs
SetUseDefault(e, v) ==
    Commit(sync_light_groups([Data EXCEPT !.use_default[e] = v], hash_seed),
           [NoArgs("use_default") EXCEPT !.ent = e])

\* ignore_default_shadow edited: the property is set, then update_handler runs
SetIgnoreDefaultShadow(e, v) ==
    Commit(sync_light_groups([Data EXCEPT !.ignore_default_shadow[e] = v], hash_seed),
           [NoArgs("ignore_default_shadow") EXCEPT !.ent = e])

\* ignore_shadow of record i edited (shown for materials); it has no update callback
SetIgnoreShadow(e, i, v) ==
    /\ IsMaterial(e)
    /\ i \in 1..Len(groups[e])
    /\ i <= ToggleLimit
    /\ Commit([Data EXCEPT !.groups[e][i].ignore_shadow = v],
              [NoArgs("ignore_shadow") EXCEPT !.ent = e])

----------------------------------------------------------------------------
(* bpy_prop_collection: find, remove, add *)

\* groups.find(name): 0-based index of the first record with that name, or -1
RECURSIVE FindFrom(_, _, _)
FindFrom(grps, nm, i) ==
    IF i > Len(grps) THEN -1
    ELSE IF grps[i].name = nm THEN i - 1
    ELSE FindFrom(grps, nm, i + 1)

CollectionFind(grps, nm) == FindFrom(grps, nm, 1)

\* groups.remove(index), index 0-based; an index outside the collection removes nothing
CollectionRemove(grps, index) ==
    IF index >= 0 /\ index < Len(grps)
    THEN SubSeq(grps, 1, index) \o SubSeq(grps, index + 2, Len(grps))
    ELSE grps

\* new = groups.add(); new.name = name
CollectionAdd(grps, nm) == Append(grps, LightGroup(nm, FALSE))

GroupNames(d, e) == {d.groups[e][i].name : i \in 1..Len(d.groups[e])}

----------------------------------------------------------------------------
(* get_name_set, unique_group_name *)

\* get_name_set that collects the names of the lights only
get_name_set_Lights(d) == SeqRange(AddedNames(d, LightSeq, 1))

get_name_set(d) ==
    SeqRange(AddedNames(d, MaterialSeq, 1)) \cup SeqRange(AddedNames(d, LightSeq, 1))

\* the loop `while name in names` of unique_group_name
RECURSIVE UniqueFrom(_, _, _)
UniqueFrom(names, nm, i) ==
    IF nm \in names THEN UniqueFrom(names, LightGroupName(i), i + 1) ELSE nm

unique_group_name(d) == UniqueFrom(get_name_set(d), LightGroupName(0), 1)

----------------------------------------------------------------------------
(* rename_group, set_name *)

\* rename_group without the test of data.library
rename_group_Library(d, e, src, tgt) ==
    [i \in 1..Len(d.groups[e]) |->
        IF d.groups[e][i].name = src
        THEN [d.groups[e][i] EXCEPT !.name = tgt]
        ELSE d.groups[e][i]]

\* rename_group(data, src, tgt): the group list of data-block e afterwards
rename_group(d, e, src, tgt) ==
    IF d.library[e] THEN d.groups[e]
    ELSE [i \in 1..Len(d.groups[e]) |->
             IF d.groups[e][i].name = src
             THEN [d.groups[e][i] EXCEPT !.name = tgt]
             ELSE d.groups[e][i]]

\* set_name(self, value) with self = record i (1-based) of data-block e
set_name(d, e, i, value) ==
    LET orig_name == d.groups[e][i].name
    IN  [d EXCEPT !.groups = [x \in Entities |-> rename_group(d, x, orig_name, value)]]

----------------------------------------------------------------------------
(* The operators of the panel *)

\* lgs.group_index = v: the property is set, then update_handler runs
AssignGroupIndex(d, e, v, seed) ==
    sync_light_groups([d EXCEPT !.group_index[e] = v], seed)

\* LightGroupSelectionOp.poll
SelectionPoll(d, e) ==
    0 <= d.group_index[e] /\ d.group_index[e] < Len(d.groups[e])

\* MAT_OT_NewLightGroup.execute on data-block e
NewLightGroup(d, e, seed) ==
    LET name == unique_group_name(d)
        d1 == [d EXCEPT !.groups[e] = CollectionAdd(@, name)]
        d2 == AssignGroupIndex(d1, e, CollectionFind(d1.groups[e], name), seed)
    IN  sync_light_groups(d2, seed)

\* the items of MAT_OT_LinkLightGroup.name
LinkItems(d, e) == get_name_set(d) \ GroupNames(d, e)

\* MAT_OT_LinkLightGroup.execute on data-block e
LinkLightGroup(d, e, name, seed) ==
    LET d1 == [d EXCEPT !.groups[e] = CollectionAdd(@, name)]
        d2 == AssignGroupIndex(d1, e, CollectionFind(d1.groups[e], name), seed)
    IN  sync_light_groups(d2, seed)

\* MAT_OT_DeleteLightGroup.execute on data-block e
DeleteLightGroup(d, e, seed) ==
    LET grp_name == d.groups[e][d.group_index[e] + 1].name
        d1 == [d EXCEPT !.groups =
                  [x \in Entities |->
                      CollectionRemove(d.groups[x], CollectionFind(d.groups[x], grp_name))]]
        d2 == AssignGroupIndex(d1, e, d1.group_index[e] - 1, seed)
    IN  sync_light_groups(d2, seed)

\* unlink that edits the list and the index and never resyncs
UnlinkLightGroup_NoSync(d, e, seed) ==
    [d EXCEPT !.groups[e] = CollectionRemove(@, d.group_index[e]),
              !.group_index[e] = @ - 1]

\* unlink that takes the selected group out of every data-block, as the delete does
UnlinkLightGroup_AllBlocks(d, e, seed) == DeleteLightGroup(d, e, seed)

\* MAT_OT_UnlinkLightGroup.execute on data-block e
UnlinkLightGroup(d, e, seed) ==
    LET d1 == [d EXCEPT !.groups[e] = CollectionRemove(@, d.group_index[e])]
        d2 == AssignGroupIndex(d1, e, d1.group_index[e] - 1, seed)
    IN  sync_light_groups(d2, seed)

New(e) ==
    /\ Len(groups[e]) < MaxLen
    /\ Commit(NewLightGroup(Data, e, hash_seed),
              [NoArgs("new") EXCEPT !.ent = e, !.tgt = unique_group_name(Data)])

Link(e, name) ==
    /\ Len(groups[e]) < MaxLen
    /\ name \in LinkItems(Data, e)
    /\ Commit(LinkLightGroup(Data, e, name, hash_seed),
              [NoArgs("link") EXCEPT !.ent = e, !.tgt = name])

Delete(e) ==
    /\ SelectionPoll(Data, e)
    /\ Commit(DeleteLightGroup(Data, e, hash_seed),
              [NoArgs("delete") EXCEPT !.ent = e,
                                       !.src = groups[e][group_index[e] + 1].name])

Unlink(e) ==
    /\ SelectionPoll(Data, e)
    /\ Commit(UnlinkLightGroup(Data, e, hash_seed),
              [NoArgs("unlink") EXCEPT !.ent = e,
                                       !.src = groups[e][group_index[e] + 1].name])

\* names a user may type into viz_name: a name in use, or a new one
RenameValues == get_name_set(Data) \cup {UserName(k) : k \in 1..MaxUser}

\* viz_name of record i of data-block e edited: set_name runs; no update callback
Rename(e, i, value) ==
    /\ i \in 1..Len(groups[e])
    /\ value \in RenameValues
    /\ Commit(set_name(Data, e, i, value),
              [NoArgs("rename") EXCEPT
                  !.ent = e, !.src = groups[e][i].name, !.tgt = value,
                  !.refs = {x \in Entities : groups[e][i].name \in GroupNames(Data, x)}])

\* a list row clicked: group_index is set, then update_handler runs
SetGroupIndex(e, v) ==
    /\ v \in 0..(Len(groups[e]) - 1)
    /\ Commit(AssignGroupIndex(Data, e, v, hash_seed),
              [NoArgs("group_index") EXCEPT !.ent = e])

\* set_bit(data.light_group_bits, bit) on its own, as map_bits calls it
SetBit(e, bit) ==
    Commit([Data EXCEPT !.light_group_bits[e] = set_bit(@, bit)],
           [NoArgs("set_bit") EXCEPT !.ent = e, !.bits = last.bits \cup {bit}])

----------------------------------------------------------------------------
(* sync_dg_handler: the dependency graph reports the data-blocks it updated *)

\* dg.mode
DgModes == {"VIEWPORT", "RENDER"}

\* what update.id of an entry of dg.updates is: nothing, a data-block that is
\* neither a material nor a light, a material, a light
UpdateIds == {"none", "object", "material", "light"}

\* the lists dg.updates of up to MaxUpdates entries
UpdateLists == UNION {[1..n -> UpdateIds] : n \in 0..MaxUpdates}

\* the loop over dg.updates that goes on after a sync pass
RECURSIVE DgUpdates_NoReturn(_, _, _, _)
DgUpdates_NoReturn(d, updates, i, seed) ==
    IF i > Len(updates) THEN [data |-> d, syncs |-> 0]
    ELSE IF updates[i] \in {"material", "light"}
         THEN LET rest == DgUpdates_NoReturn(sync_light_groups(d, seed), updates, i + 1, seed)
              IN  [rest EXCEPT !.syncs = @ + 1]
         ELSE DgUpdates_NoReturn(d, updates, i + 1, seed)

\* the loop `for update in dg.updates` from entry i on: the data afterwards
\* and the number of sync passes it ran
RECURSIVE DgUpdates(_, _, _, _)
DgUpdates(d, updates, i, seed) ==
    IF i > Len(updates) THEN [data |-> d, syncs |-> 0]
    ELSE IF updates[i] = "none" THEN DgUpdates(d, updates, i + 1, seed)
    ELSE IF updates[i] \in {"material", "light"}
         THEN [data |-> sync_light_groups(d, seed), syncs |-> 1]
         ELSE DgUpdates(d, updates, i + 1, seed)

sync_dg_handler(d, mode, updates, seed) ==
    IF mode = "RENDER" THEN [data |-> d, syncs |-> 0]
    ELSE DgUpdates(d, updates, 1, seed)

\* depsgraph_update_post fires
DepsgraphUpdate(mode, updates) ==
    LET done == sync_dg_handler(Data, mode, updates, hash_seed)
    IN  Commit(done.data,
               [NoArgs("depsgraph") EXCEPT !.mode = mode, !.updates = updates,
                                           !.syncs = done.syncs])

----------------------------------------------------------------------------
(* Initial states: a file was loaded and load_post ran sync_handler *)

\* the group lists of the loaded file
StartLists ==
    {<<>>,
     <<LightGroup(LightGroupName(0), FALSE)>>,
     <<LightGroup(LightGroupName(0), FALSE), LightGroup(LightGroupName(1), FALSE)>>}

\* the externally linked data-blocks of the loaded file
LibraryChoices == {{}, {"m2"}, {"l1"}}

Loaded(g, lib, seed) ==
    LET d == sync_light_groups(
                [groups |-> g,
                 group_index |-> [e \in Entities |-> 0],
                 use_default |-> [e \in Entities |-> TRUE],
                 ignore_default_shadow |-> [e \in Entities |-> FALSE],
                 library |-> [e \in Entities |-> e \in lib],
                 light_group_bits |-> [e \in Entities |-> ZeroMask],
                 light_group_shadow_bits |-> [e \in Entities |-> ZeroMask],
                 bit_mapping |-> <<>>, warned |-> FALSE], seed)
    IN  /\ groups = d.groups
        /\ group_index = d.group_index
        /\ use_default = d.use_default
        /\ ignore_default_shadow = d.ignore_default_shadow
        /\ library = d.library
        /\ light_group_bits = d.light_group_bits
        /\ light_group_shadow_bits = d.light_group_shadow_bits
        /\ bit_mapping = d.bit_mapping
        /\ warned = d.warned
        /\ hash_seed = seed
        /\ last = NoArgs("load")
        /\ nops = 0

\* a group list with the names lo..hi in order, ignore_shadow off
NameRun(lo, hi) == [i \in 1..(hi - lo + 1) |-> LightGroup(lo + i - 1, FALSE)]

\* numbers of light groups of the large data sets
GroupCounts ==
    {n \in 0..MaxGroups : n <= SmallGroups \/ n >= MAX_LIGHT_GROUP_BIT - 2}

\* A large file: light l1 is in groups 1..n; material m1 is in none, in the
\* first one, or in all of them and in one more that no light is in; material
\* m2 is in the last group of the light
InitSync ==
    \E n \in GroupCounts, seed \in 0..MaxSeed : \E j \in {0, 1, n + 1} :
        Loaded([e \in Entities |->
                   CASE e = "l1" -> NameRun(1, n)
                     [] e = "m1" -> NameRun(1, j)
                     [] OTHER -> NameRun(n, IF n >= 1 THEN n ELSE n - 1)],
               {}, seed)

Init ==
    \E g \in [Entities -> StartLists], lib \in LibraryChoices, seed \in 0..MaxSeed :
        Loaded(g, lib, seed)

Next ==
    \/ Resync
    \/ \E e \in Entities, v \in BOOLEAN : SetUseDefault(e, v)
    \/ \E e \in Entities, v \in BOOLEAN : SetIgnoreDefaultShadow(e, v)
    \/ \E e \in Entities, i \in 1..ToggleLimit, v \in BOOLEAN : SetIgnoreShadow(e, i, v)
    \/ \E e \in Entities : New(e)
    \/ \E e \in Entities : \E name \in LinkItems(Data, e) : Link(e, name)
    \/ \E e \in Entities : Delete(e)
    \/ \E e \in Entities : Unlink(e)
    \/ \E e \in Entities, i \in 1..MaxLen : \E value \in RenameValues : Rename(e, i, value)
    \/ \E e \in Entities, v \in 0..(MaxLen - 1) : SetGroupIndex(e, v)

Spec == Init /\ [][Next]_vars

\* the operations that leave the group lists as they are, on a large file
NextSync ==
    \/ Resync
    \/ \E e \in Entities, v \in BOOLEAN : SetUseDefault(e, v)
    \/ \E e \in Entities, v \in BOOLEAN : SetIgnoreDefaultShadow(e, v)
    \/ \E e \in Entities, i \in 1..ToggleLimit, v \in BOOLEAN : SetIgnoreShadow(e, i, v)

SpecSync == InitSync /\ [][NextSync]_vars

\* unlinking the selected group, and selecting another row, on a large file
NextUnlink ==
    \/ \E e \in Entities : Unlink(e)
    \/ \E e \in Entities, v \in 0..(MaxLen - 1) : SetGroupIndex(e, v)

SpecUnlink == InitSync /\ [][NextUnlink]_vars

\* change notifications of the dependency graph, between edits of ignore_shadow
\* (which leave the masks behind the lists)
NextDg ==
    \/ \E mode \in DgModes, updates \in UpdateLists : DepsgraphUpdate(mode, updates)
    \/ \E e \in Entities, i \in 1..ToggleLimit, v \in BOOLEAN : SetIgnoreShadow(e, i, v)

SpecDg == Init /\ [][NextDg]_vars

\* A file without groups and with use_default off: every mask is reset to
\* (0, 0, 0, 0) and no bit is set
InitBits ==
    /\ groups = [e \in Entities |-> <<>>]
    /\ group_index = [e \in Entities |-> 0]
    /\ use_default = [e \in Entities |-> FALSE]
    /\ ignore_default_shadow = [e \in Entities |-> FALSE]
    /\ library = [e \in Entities |-> FALSE]
    /\ light_group_bits = [e \in Entities |-> ZeroMask]
    /\ light_group_shadow_bits = [e \in Entities |-> ZeroMask]
    /\ bit_mapping = <<>>
    /\ warned = FALSE
    /\ hash_seed = 0
    /\ last = NoArgs("load")
    /\ nops = 0

\* set_bit called with the bit indices that up to MaxGroups + 1 names can get
NextBits == \E e \in Lights, bit \in 0..MaxGroups : SetBit(e, bit)

SpecBits == InitBits /\ [][NextBits]_vars

----------------------------------------------------------------------------
(* Vocabulary of the properties, read off the state *)

\* the last operation ended with a sync pass (a rename and an edit of
\* ignore_shadow do not)
AfterSync == last.op \notin {"rename", "ignore_shadow"}

NamesIn(e) == {groups[e][i].name : i \in 1..Len(groups[e])}
LightNames == UNION {NamesIn(l) : l \in Lights}
AllNames == UNION {NamesIn(e) : e \in Entities}

\* bit b of a packed mask: word b div 32, position (b+1) mod 32
HasBit(mask, b) ==
    /\ b \div SIZEOF_INT \in DOMAIN mask
    /\ ((b + 1) % SIZEOF_INT) \in mask[b \div SIZEOF_INT]

BitsOf(mask) == {b \in 0..(4 * SIZEOF_INT - 1) : HasBit(mask, b)}

\* the packed mask holding exactly the bits of S that fit it
Placed(S) ==
    [w \in 0..3 |-> {(b + 1) % SIZEOF_INT : b \in {x \in S : x \div SIZEOF_INT = w}}]

\* bit indices of the mapped groups of e, and of those with ignore_shadow off
MemberBits(e) == {bit_mapping[nm] : nm \in NamesIn(e) \cap DOMAIN bit_mapping}
ShadowBits(e) ==
    {bit_mapping[groups[e][i].name] :
        i \in {k \in 1..Len(groups[e]) :
                  groups[e][k].name \in DOMAIN bit_mapping /\ ~groups[e][k].ignore_shadow}}

DefaultBit(on) == IF on THEN {MAX_LIGHT_GROUP_BIT} ELSE {}

----------------------------------------------------------------------------
(* Properties *)

\* C1: when the lights reference fewer than 127 distinct group names, the
\* mapping of the sync pass numbers exactly those names, no two names share a
\* bit index, and every index lies in 0..126.
C1_Injective ==
    (AfterSync /\ Cardinality(LightNames) < MAX_LIGHT_GROUP_BIT) =>
        /\ DOMAIN bit_mapping = LightNames
        /\ Cardinality({bit_mapping[nm] : nm \in DOMAIN bit_mapping})
              = Cardinality(DOMAIN bit_mapping)
        /\ \A nm \in DOMAIN bit_mapping : bit_mapping[nm] \in 0..(MAX_LIGHT_GROUP_BIT - 1)

\* a resync has numbered 126 names, the most that stay under the capacity
C1_Witness ==
    /\ last.op = "sync"
    /\ Cardinality(LightNames) = MAX_LIGHT_GROUP_BIT - 1
    /\ Cardinality(DOMAIN bit_mapping) = MAX_LIGHT_GROUP_BIT - 1

\* C2: for a name universe of any size, the mapping of a sync pass never gives
\* bit index 127 to a named group.
C2_DefaultBitReserved ==
    \A nm \in DOMAIN bit_mapping : bit_mapping[nm] # MAX_LIGHT_GROUP_BIT

\* C3: with 127 or more distinct names the pass warns, the mapping covers at
\* most 127 names, and a name beyond the capacity sets no bit in the masks of
\* the data-blocks that reference it.
C3_OverflowTruncated ==
    (AfterSync /\ Cardinality(LightNames) >= MAX_LIGHT_GROUP_BIT) =>
        /\ warned
        /\ Cardinality(DOMAIN bit_mapping) <= MAX_LIGHT_GROUP_BIT
        /\ \A e \in Entities :
              BitsOf(light_group_bits[e]) \subseteq
                  {b \in MemberBits(e) : b < MAX_LIGHT_GROUP_BIT}
                      \cup DefaultBit(use_default[e])
        /\ \A e \in Materials :
              BitsOf(light_group_shadow_bits[e]) \subseteq
                  {b \in ShadowBits(e) : b < MAX_LIGHT_GROUP_BIT}
                      \cup DefaultBit(use_default[e] /\ ~ignore_default_shadow[e])

\* C4: after a sync pass every bit set in a material's shadow mask is set in
\* its membership mask.
C4_ShadowSubset ==
    AfterSync =>
        \A m \in Materials : \A w \in 0..3 :
            light_group_shadow_bits[m][w] \subseteq light_group_bits[m][w]

\* a resynced material whose shadow mask is a non-empty proper part of its
\* membership mask
C4_Witness ==
    /\ last.op = "sync"
    /\ \E m \in Materials :
          /\ BitsOf(light_group_shadow_bits[m]) # {}
          /\ BitsOf(light_group_shadow_bits[m]) # BitsOf(light_group_bits[m])

\* C5 as stated: the names numbered by a sync pass are those of every
\* data-block, materials and lights alike, so with fewer than 127 names every
\* group of a material has its bit set in the material's membership mask.
C5_UniverseOfAllDataBlocks ==
    (AfterSync /\ Cardinality(AllNames) < MAX_LIGHT_GROUP_BIT) =>
        /\ AllNames \subseteq DOMAIN bit_mapping
        /\ \A m \in Materials : \A nm \in NamesIn(m) :
              HasBit(light_group_bits[m], bit_mapping[nm])

\* C5 amended: the names numbered by a sync pass are those referenced by the
\* lights; with fewer than 127 of them, a data-block that is in a group some
\* light is in has that group's bit set, and a group only materials are in
\* has no bit index.
C5_UniverseOfLights ==
    AfterSync =>
        /\ DOMAIN bit_mapping = LightNames
        /\ Cardinality(LightNames) < MAX_LIGHT_GROUP_BIT =>
              \A e \in Entities : \A nm \in NamesIn(e) :
                  IF nm \in LightNames
                  THEN HasBit(light_group_bits[e], bit_mapping[nm])
                  ELSE nm \notin DOMAIN bit_mapping

\* a resynced material that is in a group of a light and in a group no light is in
C5_Witness ==
    /\ last.op = "sync"
    /\ \E m \in Materials :
          /\ NamesIn(m) \cap LightNames # {}
          /\ NamesIn(m) \ LightNames # {}
          /\ NamesIn(m) \ DOMAIN bit_mapping # {}

\* C6: after a sync pass the membership mask of a data-block holds exactly the
\* bits of its mapped groups plus, iff use_default, bit 127; the shadow mask of
\* a material holds exactly the bits of its mapped groups with ignore_shadow
\* off plus, iff use_default and not ignore_default_shadow, bit 127.  Bit b is
\* at word b div 32, position (b+1) mod 32 (an index past the four words has
\* no place), and nothing else is set, whatever the masks held before.
C6_ExactMasks ==
    AfterSync =>
        /\ \A e \in Entities :
              light_group_bits[e] = Placed(MemberBits(e) \cup DefaultBit(use_default[e]))
        /\ \A m \in Materials :
              light_group_shadow_bits[m] =
                  Placed(ShadowBits(m)
                         \cup DefaultBit(use_default[m] /\ ~ignore_default_shadow[m]))

\* a resync ran on masks left stale by an edit of ignore_shadow; a material now
\* has group bit 31 (position 0 of word 0), the default bit in its membership
\* mask only, and a group bit that its shadow mask lacks
C6_Witness ==
    /\ last.op = "sync"
    /\ last.prev = "ignore_shadow"
    /\ \E m \in Materials :
          /\ 31 \in MemberBits(m)
          /\ 0 \in light_group_bits[m][0]
          /\ HasBit(light_group_bits[m], MAX_LIGHT_GROUP_BIT)
          /\ MemberBits(m) \ ShadowBits(m) # {}
          /\ BitsOf(light_group_bits[m]) \ BitsOf(light_group_shadow_bits[m]) # {}

\* C7: a resync that follows an operation ending with a sync pass, with no
\* edit in between, leaves every membership and shadow mask as it was.
C7_Idempotent ==
    [][(AfterSync /\ last'.op = "sync") =>
          /\ light_group_bits' = light_group_bits
          /\ light_group_shadow_bits' = light_group_shadow_bits]_vars

\* a resync ran right after a sync pass, on masks that are not all alike
C7_Witness ==
    /\ last.op = "sync"
    /\ last.prev \notin {"rename", "ignore_shadow"}
    /\ \E m \in Materials :
          /\ BitsOf(light_group_bits[m]) # {}
          /\ light_group_shadow_bits[m] # light_group_bits[m]

\* what a rename from src to tgt does to the group lists: data-blocks of a
\* library keep their list; in every other one the records named src are named
\* tgt and nothing else changes, so none of them references src any more
RenameApplied(src, tgt) ==
    /\ \A e \in Entities :
          IF library[e] THEN groups'[e] = groups[e]
          ELSE /\ Len(groups'[e]) = Len(groups[e])
               /\ \A i \in 1..Len(groups[e]) :
                     /\ groups'[e][i].ignore_shadow = groups[e][i].ignore_shadow
                     /\ groups'[e][i].name =
                           IF groups[e][i].name = src THEN tgt ELSE groups[e][i].name
    /\ src # tgt =>
          \A e \in Entities : ~library[e] => src \notin {groups'[e][i].name : i \in 1..Len(groups'[e])}

\* C8 as stated: a rename renames the records named old in every material and
\* light outside a library and leaves the rest alone, and after the next sync
\* pass the masks of the renamed data-blocks carry the bit of the new name.
C8_RenameThenBit ==
    [][/\ last'.op = "rename" => RenameApplied(last'.src, last'.tgt)
       /\ (last'.op = "sync" /\ last'.prev = "rename" /\ last'.src # last'.tgt) =>
             \A e \in last'.refs : ~library[e] =>
                 /\ last'.tgt \in DOMAIN bit_mapping'
                 /\ HasBit(light_group_bits'[e], bit_mapping'[last'.tgt])]_vars

\* C8 amended: as above, but after the next sync pass a renamed data-block
\* carries the bit of the new name when some light references the new name
\* (and its index fits the mask); a new name no light references has no bit.
C8_RenameThenLightBit ==
    [][/\ last'.op = "rename" => RenameApplied(last'.src, last'.tgt)
       /\ (last'.op = "sync" /\ last'.prev = "rename" /\ last'.src # last'.tgt) =>
             /\ last'.tgt \in DOMAIN bit_mapping' <=> last'.tgt \in LightNames'
             /\ \A e \in last'.refs : ~library[e] =>
                   /\ last'.tgt \in NamesIn(e)'
                   /\ (last'.tgt \in DOMAIN bit_mapping'
                         /\ bit_mapping'[last'.tgt] < 4 * SIZEOF_INT) =>
                         HasBit(light_group_bits'[e], bit_mapping'[last'.tgt])]_vars

\* a resync followed a rename of a group that a material, a light and a
\* data-block of a library were in: the first two carry the bit of the new
\* name, the third still has the old name
C8_Witness ==
    /\ last.op = "sync" /\ last.prev = "rename" /\ last.src # last.tgt
    /\ last.tgt \in DOMAIN bit_mapping
    /\ \E m \in Materials \cap last.refs, l \in Lights \cap last.refs :
          /\ ~library[m] /\ ~library[l]
          /\ last.src \notin NamesIn(m) \cup NamesIn(l)
          /\ HasBit(light_group_bits[m], bit_mapping[last.tgt])
          /\ HasBit(light_group_bits[l], bit_mapping[last.tgt])
    /\ \E x \in last.refs : library[x] /\ last.src \in NamesIn(x)

\* the masks are those a fresh sync pass computes from the lists and flags
InSync ==
    LET fresh == sync_light_groups(Data, hash_seed)
    IN  /\ light_group_bits = fresh.light_group_bits
        /\ light_group_shadow_bits = fresh.light_group_shadow_bits

\* C9 as stated: after a group is created, linked, unlinked, deleted or
\* renamed, the masks are those of a fresh sync pass.
C9_EveryEditResyncs ==
    last.op \in {"new", "link", "unlink", "delete", "rename"} => InSync

\* C9 amended: after a group is created, linked, unlinked or deleted, the masks
\* are those of a fresh sync pass (a rename runs no sync pass).
C9_OperatorsResync ==
    last.op \in {"new", "link", "unlink", "delete"} => InSync

\* an unlink took a group bit out of the masks of the edited data-block
C9_Witness ==
    /\ last.op = "unlink"
    /\ last.src \in DOMAIN bit_mapping
    /\ last.src \notin NamesIn(last.ent)
    /\ ~HasBit(light_group_bits[last.ent], bit_mapping[last.src])

\* C10: after an unlink or a delete, if the group list of the edited data-block
\* is not empty, its group_index is a valid position of the list.
C10_IndexInRange ==
    (last.op \in {"unlink", "delete"} /\ Len(groups[last.ent]) > 0) =>
        (0 <= group_index[last.ent] /\ group_index[last.ent] < Len(groups[last.ent]))

\* no group list holds a name twice
UniqueNames(e) == Cardinality(NamesIn(e)) = Len(groups[e])

\* C11: starting from lists with unique names, after any sequence of new, link,
\* unlink, delete and rename operations, every group list of a material or a
\* light holds each group name at most once.
C11_UniqueNames == \A e \in Entities : UniqueNames(e)

\* the bit indices the mapping hands out
MappedIndices == {bit_mapping[nm] : nm \in DOMAIN bit_mapping}

\* C12 as stated, the name universe being the names referenced by any material
\* or light: after an unlink removed the last reference to a group, the sync
\* pass that follows leaves the name unmapped and numbers the remaining n < 127
\* names of the data set with exactly 0..n-1.
C12_DenseOverAllNames ==
    (last.op = "unlink" /\ last.src \notin AllNames
        /\ Cardinality(AllNames) < MAX_LIGHT_GROUP_BIT) =>
        /\ last.src \notin DOMAIN bit_mapping
        /\ DOMAIN bit_mapping = AllNames
        /\ MappedIndices = 0..(Cardinality(AllNames) - 1)

\* C12 amended, the name universe being the names referenced by lights: after
\* an unlink removed the last reference to a group, the sync pass that follows
\* leaves the name unmapped and numbers the remaining n < 127 names of the
\* lights with exactly 0..n-1.
C12_DenseOverLightNames ==
    (last.op = "unlink" /\ last.src \notin AllNames
        /\ Cardinality(LightNames) < MAX_LIGHT_GROUP_BIT) =>
        /\ last.src \notin DOMAIN bit_mapping
        /\ DOMAIN bit_mapping = LightNames
        /\ MappedIndices = 0..(Cardinality(LightNames) - 1)

\* the last reference to the first of 127 light groups was unlinked from the
\* light; the 126 names left are numbered 0..125
C12_Witness ==
    /\ last.op = "unlink"
    /\ last.ent \in Lights
    /\ last.src \notin AllNames
    /\ Cardinality(LightNames) = MAX_LIGHT_GROUP_BIT - 1
    /\ MappedIndices = 0..(MAX_LIGHT_GROUP_BIT - 2)

\* the records of e that are not named nm, in list order
OtherRecords(e, nm) == SelectSeq(groups[e], LAMBDA g : g.name # nm)

\* C13: after a delete of the selected group G, no material and no light has a
\* record named G, and on every data-block the records with other names are
\* what they were, in the same order.
C13_DeleteRemovesEverywhere ==
    [][last'.op = "delete" =>
          \A e \in Entities : groups'[e] = OtherRecords(e, last'.src)]_vars

\* C14: after a sync pass, for every material and light, the default bit
\* position of the membership mask (word 3, bit 0) is set if and only if
\* use_default of that data-block is on, whatever groups it is in and however
\* many group names there are.
C14_DefaultBitIsUseDefault ==
    AfterSync => \A e \in Entities : (0 \in light_group_bits[e][3]) <=> use_default[e]

\* the list grps without its record at the 0-based position index
WithoutRecord(grps, index) ==
    [i \in 1..(Len(grps) - 1) |-> IF i <= index THEN grps[i] ELSE grps[i + 1]]

C16_NewAppendsUnusedName ==
    [][last'.op = "new" =>
          LET e == last'.ent
              n == Len(groups[e])
          IN  /\ Len(groups'[e]) = n + 1
              /\ SubSeq(groups'[e], 1, n) = groups[e]
              /\ groups'[e][n + 1].name \notin AllNames
              /\ groups'[e][n + 1].name
                    \in {LightGroupName(i) : i \in 0..Cardinality(AllNames)}
              /\ group_index'[e] = n
              /\ \A x \in Entities \ {e} : groups'[x] = groups[x]]_vars

\* a light got its first group while materials were in 'LightGroup' and
\* 'LightGroup.001': the new record is named 'LightGroup.002' and is selected
C16_Witness ==
    /\ last.op = "new"
    /\ last.ent \in Lights
    /\ NamesIn(last.ent) = {LightGroupName(2)}
    /\ group_index[last.ent] = 0
    /\ \E m \in Materials : NamesIn(m) = {LightGroupName(0), LightGroupName(1)}

\* C17: on a change notification of the dependency graph a sync pass runs if
\* and only if the mode is not RENDER and some updated data-block is a material
\* or a light; it then runs once, however many materials and lights were
\* updated, and rewrites the masks; otherwise the masks are left as they were.
C17_SyncOnDataChange ==
    [][last'.op = "depsgraph" =>
          LET relevant ==
                  /\ last'.mode # "RENDER"
                  /\ \E i \in DOMAIN last'.updates :
                        last'.updates[i] \in {"material", "light"}
              fresh == sync_light_groups(Data, hash_seed)
          IN  /\ last'.syncs = IF relevant THEN 1 ELSE 0
              /\ relevant =>
                    /\ light_group_bits' = fresh.light_group_bits
                    /\ light_group_shadow_bits' = fresh.light_group_shadow_bits
              /\ ~relevant =>
                    UNCHANGED <<light_group_bits, light_group_shadow_bits>>]_vars

\* a notification outside a render named a material and a light: one sync pass
\* ran and took a shadow bit out that an edit of ignore_shadow had left stale
C17_Witness ==
    /\ last.op = "depsgraph"
    /\ last.mode = "VIEWPORT"
    /\ last.updates = <<"material", "light">>
    /\ last.syncs = 1
    /\ \E m \in Materials :
          /\ Len(groups[m]) >= 1
          /\ groups[m][1].ignore_shadow
          /\ groups[m][1].name \in DOMAIN bit_mapping
          /\ HasBit(light_group_bits[m], bit_mapping[groups[m][1].name])
          /\ ~HasBit(light_group_shadow_bits[m], bit_mapping[groups[m][1].name])

\* the physical bits of a packed mask that are set: <<word, position>>
PhysicalBits(mask) == {wp \in (0..3) \X (0..(SIZEOF_INT - 1)) : wp[2] \in mask[wp[1]]}

\* C18: set_bit places bit index b of 0..127 in word b div 32 at position
\* (b+1) mod 32, and distinct indices of 0..127 get distinct physical bits: a
\* mask built by set_bit calls has as many physical bits set as there were
\* distinct indices of 0..127 among the calls; a call with an index above 127
\* adds nothing.
C18_PlacementInjective ==
    last.op = "set_bit" =>
        LET vec == light_group_bits[last.ent]
            placed == last.bits \cap (0..MAX_LIGHT_GROUP_BIT)
        IN  /\ DOMAIN vec = 0..3
            /\ \A b \in placed : ((b + 1) % SIZEOF_INT) \in vec[b \div SIZEOF_INT]
            /\ Cardinality(PhysicalBits(vec)) = Cardinality(placed)

\* the last group bit 126 and the default bit 127 were set in one mask: two
\* physical bits of word 3
C18_Witness ==
    /\ last.op = "set_bit"
    /\ last.bits = {MAX_LIGHT_GROUP_BIT - 1, MAX_LIGHT_GROUP_BIT}
    /\ light_group_bits[last.ent][3] = {0, SIZEOF_INT - 1}

\* C19: a sync pass writes masks only: a resync leaves every group list (names,
\* order, ignore_shadow), use_default, ignore_default_shadow, group_index and
\* the library flag as they were, and no step, with or without a sync pass,
\* writes the shadow mask of a light.
C19_SyncWritesMasksOnly ==
    [][/\ last'.op = "sync" =>
              UNCHANGED <<groups, group_index, use_default, ignore_default_shadow, library>>
       /\ \A l \in Lights : light_group_shadow_bits'[l] = light_group_shadow_bits[l]]_vars

\* a resync after an edit of ignore_shadow rewrote the masks of a material,
\* whose shadow mask lost the bit of the group, and set the bit of that group
\* in the membership mask of a light, whose shadow mask holds no bit
C19_Witness ==
    /\ last.op = "sync"
    /\ last.prev = "ignore_shadow"
    /\ \E m \in Materials, l \in Lights :
          /\ Len(groups[m]) >= 1
          /\ groups[m][1].ignore_shadow
          /\ groups[m][1].name \in NamesIn(l)
          /\ HasBit(light_group_bits[m], bit_mapping[groups[m][1].name])
          /\ ~HasBit(light_group_shadow_bits[m], bit_mapping[groups[m][1].name])
          /\ HasBit(light_group_bits[l], bit_mapping[groups[m][1].name])
          /\ light_group_shadow_bits[l] = ZeroMask

====
